---- MODULE Spec2Model ----
(***************************************************************************)
(* Model of service-worker.js, the service worker of the Simple Reminder   *)
(* app: the install / activate / fetch cache lifecycle, the push handler   *)
(* that builds and shows a notification, and the notificationclick         *)
(* handler that focuses or opens a client window.                          *)
(*                                                                         *)
(* Every handler is split at its asynchronous boundaries: one action per   *)
(* promise that settles.  Platform services (Cache Storage, network,       *)
(* showNotification, Clients) are the environment: where the code has a    *)
(* branch for their failure, the failure is a nondeterministic outcome.    *)
(***************************************************************************)
EXTENDS Integers, Sequences, FiniteSets, TLC

(***************************************************************************)
(* Bounds of the model.                                                    *)
(***************************************************************************)
MaxFetchEvents == 2
MaxPushEvents == 2
MaxTime == 2000
TickStep == 500
MaxMessages == 2

(***************************************************************************)
(* Program constants.                                                      *)
(***************************************************************************)
CACHE_NAME == "simple-reminders-v1"

\* The delay given to setTimeout before the relay to a new window.
RelayDelay == 1000

AppHost == "app.example"

\* A request: method plus the parts of its URL the handler looks at.
Req(m, h, p, path) == [method |-> m, hostname |-> h, port |-> p, pathname |-> path]

\* './', './index.html', './app.js', './manifest.json' resolved against the
\* worker's location.
urlsToCache ==
    { Req("GET", AppHost, "", "/"),
      Req("GET", AppHost, "", "/index.html"),
      Req("GET", AppHost, "", "/app.js"),
      Req("GET", AppHost, "", "/manifest.json") }

ReqStyle == Req("GET", AppHost, "", "/style.css")
ReqIndex == Req("GET", AppHost, "", "/index.html")
ReqPiHost == Req("GET", "192.168.0.147", "", "/api")
ReqPiPort == Req("GET", "pi.local", "3001", "/api")
ReqPost == Req("POST", AppHost, "", "/sync")

\* The requests the environment sends.
Requests == {ReqStyle, ReqIndex, ReqPiHost, ReqPiPort, ReqPost}

\* Names of cache generations left behind by earlier versions.
StaleNames == {"simple-reminders-v0", "other-cache"}

(***************************************************************************)
(* Strings.                                                                *)
(***************************************************************************)
\* String.prototype.includes
Includes(s, sub) ==
    \E i \in 1..(Len(s) - Len(sub) + 1) : SubSeq(s, i, i + Len(sub) - 1) = sub

(***************************************************************************)
(* Responses.                                                              *)
(***************************************************************************)
Resp(st, ct, b, n) == [status |-> st, contentType |-> ct, body |-> b, id |-> n]

\* A response the network produced; id tells two network responses apart.
NetResponse(st, n) == Resp(st, "text/plain", "network", n)
\* What cache.addAll stored at install.
ManifestResponse == Resp(200, "text/plain", "manifest", 0)
\* What an earlier version of the worker left in its generation.
StaleResponse == Resp(200, "text/plain", "stale", 0)

\* JSON.stringify of the two-field error object.
StringifyError(obj) ==
    "{\"error\":\"" \o obj.error \o "\",\"message\":\"" \o obj.message \o "\"}"

\* new Response(JSON.stringify({error, message}), {status: 408, headers})
ErrorResponse ==
    Resp(408, "application/json",
         StringifyError([error |-> "Network error",
                         message |-> "Please check your connection and try again"]),
         0)

NoResponse == Resp(0, "", "", 0)

VARIABLES
    caches,        \* Cache Storage: sequence of [name, entries], creation order
    swState,       \* lifecycle state of this worker
    installPc,     \* position inside the install handler's awaited work
    activatePc,    \* position inside the activate handler's awaited work
    activateKeys,  \* the names caches.keys() resolved with
    pendingDeletes,\* caches.delete(name) calls that have not settled
    failedDeletes, \* caches.delete(name) calls that rejected
    claimed,       \* clients.claim() has been called
    claimedWithStale, \* a stale generation existed when clients.claim() ran
    skipWaitingCalls, \* number of self.skipWaiting() calls
    slots,         \* fetch events in progress
    pendingPuts,   \* caches.open(CACHE_NAME).then(cache.put) chains in flight
    netSeq,        \* number of responses the network gave the handler
    fetchEvents,   \* number of fetch events dispatched so far
    delivered200,  \* requests for which a network 200 reached the client
    written,       \* requests whose cache.put completed
    lostPuts,      \* cache writes dropped when the worker was terminated
    putLog,        \* the cache writes that completed, in that order

    \* shared by the push and notificationclick handlers
    userAgent,     \* self.navigator.userAgent
    windows,       \* open window clients of this origin, as matchAll lists them
    displayed,     \* notifications on display, at most one per tag
    \* push handler
    pushPc,        \* position inside the push handler
    pushPayload,   \* event.data of the push event being handled
    notificationData, \* the descriptor the handler built
    showCalls,     \* number of showNotification calls
    pushRelays,    \* REMINDER_NOTIFICATION_SHOWN messages of the current event
    pushEvents,    \* number of push events dispatched so far
    pushOutcome,   \* how the awaited work of the current push event went
    \* notificationclick handler
    clickPc,       \* position inside the notificationclick handler
    clickOutcome,  \* how the work of the notificationclick handler went
    clickAction,   \* event.action
    clickNotification, \* event.notification
    clickTarget,   \* the window being focused or the handle openWindow gave
    matchAllCalls, \* clients.matchAll calls made by the click handler
    focusCalls,    \* client.focus() calls: the windows focused, in order
    openCalls,     \* clients.openWindow calls: the URLs opened, in order
    openWindowSupported, \* clients.openWindow exists on this platform
    clickRelays,   \* REMINDER_NOTIFICATION_CLICKED messages sent
    timers,        \* setTimeout callbacks waiting to run
    lostTimers,    \* timers dropped when the worker was terminated
    now,           \* the clock, in milliseconds
    \* message handler
    msgLog,        \* the message events handled: their data type and ports
    msgReplies,    \* messages posted on reply ports, in order
    msgThrew       \* message events whose handler threw

lifeVars == << swState, installPc, activatePc, activateKeys, pendingDeletes,
              failedDeletes,
               claimed, claimedWithStale, skipWaitingCalls >>

fetchVars == << slots, pendingPuts, netSeq, fetchEvents, delivered200,
                written, lostPuts, putLog >>

pushVars == << userAgent, displayed, pushPc, pushPayload, notificationData,
               showCalls, pushRelays, pushEvents, pushOutcome >>

clickVars == << windows, clickPc, clickOutcome, clickAction,
               clickNotification, clickTarget,
                matchAllCalls, focusCalls, openCalls, openWindowSupported,
                clickRelays, timers, lostTimers, now >>

msgVars == << msgLog, msgReplies, msgThrew >>

vars == << caches, lifeVars, fetchVars, pushVars, clickVars, msgVars >>

(***************************************************************************)
(* Cache Storage.                                                          *)
(***************************************************************************)
EmptyEntries == [k \in {} |-> NoResponse]

CacheNames(cs) == { cs[i].name : i \in DOMAIN cs }

CacheIndex(cs, n) == CHOOSE i \in DOMAIN cs : cs[i].name = n

\* caches.open(name): creates the generation when it does not exist.
CachesOpen(cs, n) ==
    IF n \in CacheNames(cs) THEN cs
    ELSE Append(cs, [name |-> n, entries |-> EmptyEntries])

\* caches.delete(name)
CachesDelete(cs, n) == SelectSeq(cs, LAMBDA c : c.name # n)

\* cache.match(request): undefined (NoResponse) for a request that is not a
\* GET or has no entry.
CacheMatch(entries, req) ==
    IF req.method = "GET" /\ req \in DOMAIN entries THEN entries[req]
    ELSE NoResponse

\* caches.match(request): the first generation, in creation order, that has
\* an entry for the request; every generation is consulted.
CachesMatch(cs, req) ==
    LET hits == { i \in DOMAIN cs : CacheMatch(cs[i].entries, req) # NoResponse }
    IN  IF hits = {} THEN NoResponse
        ELSE CacheMatch(cs[CHOOSE i \in hits : \A j \in hits : i <= j].entries, req)

\* Mutant of CachePut: the entry is stored under the URL without its path.
CachePutWrongKey(cs, n, req, resp) ==
    [cs EXCEPT ![CacheIndex(cs, n)].entries =
                   ([req EXCEPT !.pathname = "/"] :> resp) @@ @]

\* Mutant of CachePut: an entry that exists is not replaced.
CachePutKeepFirst(cs, n, req, resp) ==
    [cs EXCEPT ![CacheIndex(cs, n)].entries = @ @@ (req :> resp)]

\* cache.put(request, response) on the generation named n.
CachePut(cs, n, req, resp) ==
    [cs EXCEPT ![CacheIndex(cs, n)].entries = (req :> resp) @@ @]

\* cache.addAll(urls) on the generation named n: every entry or none.
CacheAddAll(cs, n, reqs) ==
    [cs EXCEPT ![CacheIndex(cs, n)].entries =
                   [r \in reqs |-> ManifestResponse] @@ @]

(***************************************************************************)
(* Request Router.                                                         *)
(***************************************************************************)
\* Mutant of IsBypass: the port test is missing.
IsBypassHostOnly(req) == Includes(req.hostname, "192.168.")

\* url.hostname.includes('192.168.') || url.port === '3001'
IsBypass(req) == Includes(req.hostname, "192.168.") \/ req.port = "3001"

IdleSlot ==
    [pc |-> "idle", req |-> ReqStyle, response |-> NoResponse,
     respondWith |-> FALSE, matched |-> FALSE, usedNet |-> FALSE,
     putStarted |-> FALSE, fromCache |-> FALSE, netFailed |-> FALSE,
     after200 |-> FALSE, afterWrite |-> FALSE]

\* Fetch events are numbered in the order of their dispatch.
Slots == 1..MaxFetchEvents

(***************************************************************************)
(* Initial state: the worker script has been evaluated; Cache Storage      *)
(* holds whatever earlier versions left.                                   *)
(***************************************************************************)
StaleEntries ==
    { EmptyEntries,
      (ReqStyle :> StaleResponse) @@ (ReqPiPort :> StaleResponse) }

\* Stale generations in the order they were created, then possibly a
\* generation that already has the current name.
InitialCaches ==
    { cs \in UNION { [1..n -> [name : StaleNames \cup {CACHE_NAME},
                               entries : StaleEntries]] : n \in 0..3 } :
        /\ \A i, j \in DOMAIN cs : i # j => cs[i].name # cs[j].name
        /\ \A i \in DOMAIN cs : cs[i].name = CACHE_NAME => i = Len(cs)
        /\ \A i, j \in DOMAIN cs :
              (cs[i].name = "simple-reminders-v0" /\ cs[j].name = "other-cache")
                  => i < j }

(***************************************************************************)
(* Cache Lifecycle Manager: install.                                       *)
(***************************************************************************)
\* The install event: waitUntil(caches.open(CACHE_NAME).then(addAll)) is
\* registered and self.skipWaiting() is called.
InstallStart ==
    /\ swState = "parsed"
    /\ swState' = "installing"
    /\ installPc' = "open"
    /\ skipWaitingCalls' = skipWaitingCalls + 1
    /\ UNCHANGED << caches, activatePc, activateKeys, pendingDeletes,
                    failedDeletes, claimed, claimedWithStale, fetchVars,
                    pushVars, clickVars, msgVars >>

\* caches.open(CACHE_NAME) resolves.
InstallOpen ==
    /\ installPc = "open"
    /\ caches' = CachesOpen(caches, CACHE_NAME)
    /\ installPc' = "addAll"
    /\ UNCHANGED << swState, activatePc, activateKeys, pendingDeletes,
                    failedDeletes, claimed, claimedWithStale,
                    skipWaitingCalls, fetchVars, pushVars, clickVars,
                    msgVars >>

\* cache.addAll(urlsToCache) resolves: every manifest entry is stored and
\* the worker is installed.
InstallAddAllOk ==
    /\ installPc = "addAll"
    /\ caches' = CacheAddAll(caches, CACHE_NAME, urlsToCache)
    /\ installPc' = "done"
    /\ swState' = "installed"
    /\ UNCHANGED << activatePc, activateKeys, pendingDeletes, failedDeletes,
                    claimed, claimedWithStale, skipWaitingCalls, fetchVars,
                    pushVars, clickVars, msgVars >>

\* cache.addAll rejects (one manifest fetch failed): nothing is stored, the
\* promise given to waitUntil rejects and the install fails.
InstallAddAllFail ==
    /\ installPc = "addAll"
    /\ installPc' = "failed"
    /\ swState' = "redundant"
    /\ UNCHANGED << caches, activatePc, activateKeys, pendingDeletes,
                    failedDeletes, claimed, claimedWithStale,
                    skipWaitingCalls, fetchVars, pushVars, clickVars,
                    msgVars >>

(***************************************************************************)
(* Cache Lifecycle Manager: activate.                                      *)
(***************************************************************************)
\* Mutant of ToDelete: only the previous version's generation is deleted.
ToDeletePreviousOnly(cacheNames) ==
    { n \in cacheNames : n = "simple-reminders-v0" }

\* cacheNames.map(...): the names for which caches.delete is called.
ToDelete(cacheNames) == { n \in cacheNames : n # CACHE_NAME }

\* The activate event: skipWaiting was called at install, so the installed
\* worker activates without waiting; caches.keys() is requested.
ActivateStart ==
    /\ swState = "installed"
    /\ swState' = "activating"
    /\ activatePc' = "keys"
    /\ UNCHANGED << caches, installPc, activateKeys, pendingDeletes,
                    failedDeletes, claimed, claimedWithStale,
                    skipWaitingCalls, fetchVars, pushVars, clickVars,
                    msgVars >>

\* caches.keys() resolves; caches.delete is called for every name that is
\* not CACHE_NAME and Promise.all waits for all of them.
ActivateKeys ==
    /\ activatePc = "keys"
    /\ activateKeys' = CacheNames(caches)
    /\ pendingDeletes' = ToDelete(CacheNames(caches))
    /\ failedDeletes' = {}
    /\ activatePc' = IF ToDelete(CacheNames(caches)) = {} THEN "claim"
                     ELSE "deleting"
    /\ UNCHANGED << caches, swState, installPc, claimed, claimedWithStale,
                    skipWaitingCalls, fetchVars, pushVars, clickVars,
                    msgVars >>

\* One caches.delete(name) resolves.  Promise.all resolves when the last
\* one has, unless it rejected before.
DeleteOk(n) ==
    /\ n \in pendingDeletes
    /\ caches' = CachesDelete(caches, n)
    /\ pendingDeletes' = pendingDeletes \ {n}
    /\ activatePc' = IF activatePc = "deleting" /\ pendingDeletes = {n}
                     THEN "claim" ELSE activatePc
    /\ UNCHANGED << failedDeletes, swState, installPc, activateKeys, claimed,
                    claimedWithStale, skipWaitingCalls, fetchVars, pushVars,
                    clickVars, msgVars >>

\* Mutant of DeleteFail: the first rejection cancels the deletions still in
\* flight.
DeleteFailAbortsOthers(n) ==
    /\ n \in pendingDeletes
    /\ pendingDeletes' = {}
    /\ failedDeletes' = failedDeletes \cup {n}
    /\ activatePc' = IF activatePc = "deleting" THEN "rejected" ELSE activatePc
    /\ UNCHANGED << caches, swState, installPc, activateKeys, claimed,
                    claimedWithStale, skipWaitingCalls, fetchVars, pushVars,
                    clickVars, msgVars >>

\* One caches.delete(name) rejects: Promise.all rejects at once, the .then
\* with clients.claim() is skipped and the promise given to waitUntil
\* rejects.  The other deletions stay in flight.
DeleteFail(n) ==
    /\ n \in pendingDeletes
    /\ pendingDeletes' = pendingDeletes \ {n}
    /\ failedDeletes' = failedDeletes \cup {n}
    /\ activatePc' = IF activatePc = "deleting" THEN "rejected" ELSE activatePc
    /\ UNCHANGED << caches, swState, installPc, activateKeys, claimed,
                    claimedWithStale, skipWaitingCalls, fetchVars, pushVars,
                    clickVars, msgVars >>

\* Mutant of Claim: clients.claim() does not wait for Promise.all.
ClaimWithoutWaiting ==
    /\ activatePc \in {"deleting", "claim"}
    /\ claimed' = TRUE
    /\ claimedWithStale' = (ToDelete(CacheNames(caches)) # {})
    /\ activatePc' = "done"
    /\ UNCHANGED << caches, swState, installPc, activateKeys, pendingDeletes,
                    failedDeletes, skipWaitingCalls, fetchVars, pushVars,
                    clickVars, msgVars >>

\* .then(() => self.clients.claim()) runs and resolves.
Claim ==
    /\ activatePc = "claim"
    /\ claimed' = TRUE
    /\ claimedWithStale' = (ToDelete(CacheNames(caches)) # {})
    /\ activatePc' = "done"
    /\ UNCHANGED << caches, swState, installPc, activateKeys, pendingDeletes,
                    failedDeletes, skipWaitingCalls, fetchVars, pushVars,
                    clickVars, msgVars >>

\* The promise given to waitUntil has settled, either way: the worker
\* becomes activated and starts to receive fetch events.
Activated ==
    /\ swState = "activating"
    /\ activatePc \in {"done", "rejected"}
    /\ swState' = "activated"
    /\ UNCHANGED << caches, installPc, activatePc, activateKeys,
                    pendingDeletes, failedDeletes, claimed, claimedWithStale,
                    skipWaitingCalls, fetchVars, pushVars, clickVars,
                    msgVars >>

(***************************************************************************)
(* Fetch handler.                                                          *)
(***************************************************************************)
\* Status codes the network answers with.
Statuses == {200, 404}

\* The synchronous part of the fetch handler.  A bypass request returns
\* before respondWith; any other request registers
\* respondWith(caches.match(...)...).
FetchDispatch(e, r) ==
    /\ swState = "activated"
    /\ fetchEvents < MaxFetchEvents
    /\ e = fetchEvents + 1
    /\ fetchEvents' = fetchEvents + 1
    /\ slots' = [slots EXCEPT ![e] =
                    [IdleSlot EXCEPT
                        !.req = r,
                        !.pc = IF IsBypass(r) THEN "passthrough" ELSE "match",
                        !.respondWith = ~IsBypass(r),
                        !.after200 = (r \in delivered200),
                        !.afterWrite = (r \in written)]]
    /\ UNCHANGED << caches, lifeVars, pendingPuts, netSeq, delivered200,
                    written, lostPuts, putLog, pushVars, clickVars, msgVars >>

\* A request the handler did not intercept is fetched by the browser, out
\* of the worker's sight; status 0 stands for a network error.
PassthroughNet(e, st) ==
    /\ slots[e].pc = "passthrough"
    /\ slots' = [slots EXCEPT ![e].pc = "passed",
                              ![e].response =
                                  IF st = 0 THEN NoResponse
                                  ELSE NetResponse(st, 0)]
    /\ UNCHANGED << caches, lifeVars, pendingPuts, netSeq, fetchEvents,
                    delivered200, written, lostPuts, putLog, pushVars,
                    clickVars, msgVars >>

\* caches.match(event.request) resolves: a hit is the response, a miss
\* calls fetch(event.request).
Match(e) ==
    /\ slots[e].pc = "match"
    /\ LET response == CachesMatch(caches, slots[e].req)
       IN  slots' = [slots EXCEPT
                        ![e].matched = TRUE,
                        ![e].pc = IF response # NoResponse THEN "responded"
                                  ELSE "net",
                        ![e].fromCache = (response # NoResponse),
                        ![e].usedNet = (response = NoResponse),
                        ![e].response = response]
    /\ UNCHANGED << caches, lifeVars, pendingPuts, netSeq, fetchEvents,
                    delivered200, written, lostPuts, putLog, pushVars,
                    clickVars, msgVars >>

\* Mutant of NetOk: the status test before the cache write is missing.
NetOkStoreAnyStatus(e, st) ==
    /\ slots[e].pc = "net"
    /\ netSeq' = netSeq + 1
    /\ LET response == NetResponse(st, netSeq + 1)
       IN  /\ slots' = [slots EXCEPT ![e].pc = "responded",
                                     ![e].response = response,
                                     ![e].putStarted = TRUE]
           /\ pendingPuts' =
                pendingPuts \cup
                       {[req |-> slots[e].req, response |-> response,
                         stage |-> "open"]}
           /\ delivered200' =
                IF response.status = 200 THEN delivered200 \cup {slots[e].req}
                ELSE delivered200
    /\ UNCHANGED << caches, lifeVars, fetchEvents, written, lostPuts, putLog,
                    pushVars, clickVars, msgVars >>

\* fetch(event.request) resolves with a response: a 200 is cloned and
\* caches.open(CACHE_NAME).then(put) is started without being awaited; the
\* response is returned to the client.
NetOk(e, st) ==
    /\ slots[e].pc = "net"
    /\ netSeq' = netSeq + 1
    /\ LET response == NetResponse(st, netSeq + 1)
       IN  /\ slots' = [slots EXCEPT ![e].pc = "responded",
                                     ![e].response = response,
                                     ![e].putStarted = (response.status = 200)]
           /\ pendingPuts' =
                IF response.status = 200
                THEN pendingPuts \cup
                       {[req |-> slots[e].req, response |-> response,
                         stage |-> "open"]}
                ELSE pendingPuts
           /\ delivered200' =
                IF response.status = 200 THEN delivered200 \cup {slots[e].req}
                ELSE delivered200
    /\ UNCHANGED << caches, lifeVars, fetchEvents, written, lostPuts, putLog,
                    pushVars, clickVars, msgVars >>

\* Mutant of NetFail: no catch, the promise given to respondWith rejects.
NetFailUncaught(e) ==
    /\ slots[e].pc = "net"
    /\ slots' = [slots EXCEPT ![e].pc = "rejected", ![e].netFailed = TRUE]
    /\ UNCHANGED << caches, lifeVars, pendingPuts, netSeq, fetchEvents,
                    delivered200, written, lostPuts, putLog, pushVars,
                    clickVars, msgVars >>

\* fetch(event.request) rejects: the catch answers with the 408 response.
NetFail(e) ==
    /\ slots[e].pc = "net"
    /\ slots' = [slots EXCEPT ![e].pc = "responded",
                              ![e].netFailed = TRUE,
                              ![e].response = ErrorResponse]
    /\ UNCHANGED << caches, lifeVars, pendingPuts, netSeq, fetchEvents,
                    delivered200, written, lostPuts, putLog, pushVars,
                    clickVars, msgVars >>

\* caches.open(CACHE_NAME) of a started cache write resolves.
PutOpen(p) ==
    /\ p \in pendingPuts
    /\ p.stage = "open"
    /\ caches' = CachesOpen(caches, CACHE_NAME)
    /\ pendingPuts' = (pendingPuts \ {p}) \cup {[p EXCEPT !.stage = "put"]}
    /\ UNCHANGED << lifeVars, slots, netSeq, fetchEvents, delivered200,
                    written, lostPuts, putLog, pushVars, clickVars, msgVars >>

\* cache.put(event.request, responseClone) settles: it stores the entry,
\* or rejects for a request that is not a GET.
PutDone(p) ==
    /\ p \in pendingPuts
    /\ p.stage = "put"
    /\ CACHE_NAME \in CacheNames(caches)
    /\ pendingPuts' = pendingPuts \ {p}
    /\ IF p.req.method = "GET"
       THEN /\ caches' = CachePut(caches, CACHE_NAME, p.req, p.response)
            /\ written' = written \cup {p.req}
            /\ putLog' = Append(putLog, [req |-> p.req,
                                         response |-> p.response])
       ELSE UNCHANGED << caches, written, putLog >>
    /\ UNCHANGED << lifeVars, slots, netSeq, fetchEvents, delivered200,
                    lostPuts, pushVars, clickVars, msgVars >>

\* cache.put rejects (storage quota): nothing is stored and nobody handles
\* the rejection.
PutFail(p) ==
    /\ p \in pendingPuts
    /\ p.stage = "put"
    /\ pendingPuts' = pendingPuts \ {p}
    /\ UNCHANGED << caches, lifeVars, slots, netSeq, fetchEvents,
                    delivered200, written, lostPuts, putLog, pushVars,
                    clickVars, msgVars >>

(***************************************************************************)
(* Notification Normalizer (the synchronous part of the push handler).     *)
(***************************************************************************)
\* self.location.origin
Origin == "https://" \o AppHost

\* Object helpers: obj[k] = v, delete obj[k], and {...a, ...b}.
SetField(obj, k, v) == (k :> v) @@ obj
DeleteField(obj, k) == [f \in (DOMAIN obj) \ {k} |-> obj[f]]
Spread(a, b) == b @@ a

EmptyObject == [k \in {} |-> ""]

DefaultVibrate == << 200, 100, 200, 100, 200 >>
IOSVibrate == << 200, 100, 200 >>

\* let notificationData = {...}; the title is written without its emoji and
\* the icon and badge images are abbreviated.
DefaultDescriptor(timestamp) ==
    [title |-> "Reminder",
     body |-> "You have a scheduled reminder!",
     icon |-> "svg:clock-blue",
     badge |-> "svg:bell-red-100",
     tag |-> "reminder-notification",
     requireInteraction |-> TRUE,
     vibrate |-> DefaultVibrate,
     data |-> [url |-> Origin, timestamp |-> timestamp,
               source |-> "pi-reminder-server"]]

IOSBadge == "svg:bell-red-96"

DesktopActions ==
    << [action |-> "open", title |-> "Open App", icon |-> "svg:plus"],
       [action |-> "dismiss", title |-> "Dismiss", icon |-> "svg:cross"] >>

\* event.data of a push event: its text() and what json() gives.  json()
\* throws when parses is FALSE; a JSON value that is not an object (a
\* number, null) spreads no fields.
NoPayload == [present |-> FALSE, text |-> "", parses |-> FALSE, json |-> EmptyObject]
Payload(t, ok, j) == [present |-> TRUE, text |-> t, parses |-> ok, json |-> j]

\* Mutant of ParseAndMerge: the two pinned fields are not written back after
\* the merge.
ParseAndMergeNoPin(nd, data) ==
    IF ~data.present THEN nd
    ELSE IF data.parses THEN Spread(nd, data.json)
         ELSE SetField(nd, "body", data.text)

\* Mutant of ParseAndMerge: the text fallback replaces the title.
ParseAndMergeTextAsTitle(nd, data) ==
    IF ~data.present THEN nd
    ELSE IF data.parses
         THEN Spread(Spread(nd, data.json),
                     [requireInteraction |-> TRUE, vibrate |-> DefaultVibrate])
         ELSE SetField(nd, "title", data.text)

\* if (event.data) { try { merge } catch { body = text } }
ParseAndMerge(nd, data) ==
    IF ~data.present THEN nd
    ELSE IF data.parses
         THEN Spread(Spread(nd, data.json),
                     [requireInteraction |-> TRUE, vibrate |-> DefaultVibrate])
         ELSE SetField(nd, "body", data.text)

\* /iPad|iPhone|iPod/.test(self.navigator.userAgent || '')
IsIOS(ua) ==
    Includes(ua, "iPad") \/ Includes(ua, "iPhone") \/ Includes(ua, "iPod")

\* Mutant of PlatformPass: the action buttons are added only when the
\* descriptor has none.
PlatformPassKeepActions(nd, ua) ==
    IF IsIOS(ua)
    THEN SetField(SetField(SetField(DeleteField(nd, "actions"),
                                    "vibrate", IOSVibrate),
                           "requireInteraction", TRUE),
                  "badge", IOSBadge)
    ELSE IF "actions" \in DOMAIN nd THEN nd
         ELSE SetField(nd, "actions", DesktopActions)

\* The platform pass: the iOS branch and the desktop / Android branch.
PlatformPass(nd, ua) ==
    IF IsIOS(ua)
    THEN SetField(SetField(SetField(DeleteField(nd, "actions"),
                                    "vibrate", IOSVibrate),
                           "requireInteraction", TRUE),
                  "badge", IOSBadge)
    ELSE SetField(nd, "actions", DesktopActions)

\* The descriptor the push handler passes to showNotification.
BuildNotification(data, ua, timestamp) ==
    PlatformPass(ParseAndMerge(DefaultDescriptor(timestamp), data), ua)

(***************************************************************************)
(* The push payloads and platforms of the model.                           *)
(***************************************************************************)
PayloadText == Payload("Call mom", FALSE, EmptyObject)
PayloadPills ==
    Payload("{pills}", TRUE, [title |-> "Take pills", body |-> "8am dose"])
PayloadOverride ==
    Payload("{override}", TRUE,
            [title |-> "Take pills", requireInteraction |-> FALSE,
             vibrate |-> << 50 >>])
PayloadTag == Payload("{tag}", TRUE, [tag |-> "meds", body |-> "8am dose"])
PayloadFull ==
    Payload("{full}", TRUE,
            [title |-> "Water plants", body |-> "Balcony", icon |-> "srv:icon",
             badge |-> "srv:badge", tag |-> "plants",
             requireInteraction |-> FALSE, vibrate |-> << 10, 10 >>,
             actions |-> << [action |-> "snooze", title |-> "Snooze",
                             icon |-> "srv:snooze"] >>,
             data |-> [url |-> "https://pi.local", timestamp |-> 7,
                       source |-> "cron"],
             silent |-> TRUE])
PayloadNumber == Payload("42", TRUE, EmptyObject)

Payloads == { NoPayload, PayloadText, PayloadPills, PayloadOverride,
              PayloadTag, PayloadFull, PayloadNumber }

UserAgents ==
    { "", "Mozilla/5.0 (iPhone; CPU iPhone OS 17_0)", "Mozilla/5.0 (iPad)",
      "iPod touch", "Mozilla/5.0 (Windows NT 10.0)", "Mozilla/5.0 (Macintosh)" }

(***************************************************************************)
(* Notification Dispatcher (the awaited part of the push handler).         *)
(***************************************************************************)
\* The push event: the descriptor is built and
\* waitUntil(showNotification(title, notificationData)...) is registered.
PushDispatch(data) ==
    /\ swState = "activated"
    /\ pushPc \in {"idle", "done"}
    /\ pushEvents < MaxPushEvents
    /\ pushEvents' = pushEvents + 1
    /\ pushPayload' = data
    /\ notificationData' = BuildNotification(data, userAgent, now)
    /\ showCalls' = showCalls + 1
    /\ pushRelays' = EmptyObject
    /\ pushOutcome' = "pending"
    /\ pushPc' = "show"
    /\ UNCHANGED << caches, lifeVars, fetchVars, userAgent, displayed,
                    clickVars, msgVars >>

\* showNotification resolves: the notification is on display, replacing one
\* with the same tag; clients.matchAll is requested.
PushShowOk ==
    /\ pushPc = "show"
    /\ displayed' = SetField(displayed, notificationData.tag, notificationData)
    /\ pushOutcome' = "shown"
    /\ pushPc' = "matchAll"
    /\ UNCHANGED << caches, lifeVars, fetchVars, userAgent, pushPayload,
                    notificationData, showCalls, pushRelays, pushEvents,
                    clickVars, msgVars >>

\* Mutant of PushShowFail: the rejection is swallowed before the client
\* enumeration instead of after it.
PushShowFailThenRelay ==
    /\ pushPc = "show"
    /\ pushOutcome' = "showFailed"
    /\ pushPc' = "matchAll"
    /\ UNCHANGED << caches, lifeVars, fetchVars, userAgent, displayed,
                    pushPayload, notificationData, showCalls, pushRelays,
                    pushEvents, clickVars, msgVars >>

\* showNotification rejects: the catch logs it.
PushShowFail ==
    /\ pushPc = "show"
    /\ pushOutcome' = "showFailed"
    /\ pushPc' = "done"
    /\ UNCHANGED << caches, lifeVars, fetchVars, userAgent, displayed,
                    pushPayload, notificationData, showCalls, pushRelays,
                    pushEvents, clickVars, msgVars >>

\* The message posted to a client once the notification is shown.
ShownMessage(nd, timestamp) ==
    [type |-> "REMINDER_NOTIFICATION_SHOWN", notification |-> nd,
     timestamp |-> timestamp]

\* clients.matchAll resolves: every window is sent the relay.
PushMatchAllOk ==
    /\ pushPc = "matchAll"
    /\ pushRelays' = [i \in DOMAIN windows |->
                         ShownMessage(notificationData, now)]
    /\ pushOutcome' = IF pushOutcome = "shown" THEN "relayed" ELSE pushOutcome
    /\ pushPc' = "done"
    /\ UNCHANGED << caches, lifeVars, fetchVars, userAgent, displayed,
                    pushPayload, notificationData, showCalls, pushEvents,
                    clickVars, msgVars >>

\* clients.matchAll rejects: the catch logs it.
PushMatchAllFail ==
    /\ pushPc = "matchAll"
    /\ pushOutcome' = "matchAllFailed"
    /\ pushPc' = "done"
    /\ UNCHANGED << caches, lifeVars, fetchVars, userAgent, displayed,
                    pushPayload, notificationData, showCalls, pushRelays,
                    pushEvents, clickVars, msgVars >>

(***************************************************************************)
(* Interaction Router (the notificationclick handler).                     *)
(***************************************************************************)
\* A window client: its id, its URL and whether it has a focus method.
Window(i, u, f) == [id |-> i, url |-> u, focusable |-> f]

\* event.action || 'default'
ActionOrDefault(action) == IF action = "" THEN "default" ELSE action

\* The message posted to the focused or newly opened window.
ClickedMessage(client, action, data, timestamp) ==
    [client |-> client, type |-> "REMINDER_NOTIFICATION_CLICKED",
     action |-> ActionOrDefault(action), data |-> data,
     timestamp |-> timestamp]

\* client.url.includes(self.location.origin) && 'focus' in client
Focusable(client) == Includes(client.url, Origin) /\ client.focusable

\* for (const client of clientList): the first window that can be focused,
\* 0 when there is none.
FirstFocusable(clientList) ==
    LET fit == { i \in DOMAIN clientList : Focusable(clientList[i]) }
    IN  IF fit = {} THEN 0
        ELSE clientList[CHOOSE i \in fit : \A j \in fit : i <= j].id

\* clients.openWindow('./') resolved against the worker's location.
RootUrl == Origin \o "/"

\* Mutant of ClickDispatch: the 'dismiss' action does not return early.
ClickDispatchNoDismissReturn(tag, action) ==
    /\ swState = "activated"
    /\ clickPc = "idle"
    /\ tag \in DOMAIN displayed
    /\ clickAction' = action
    /\ clickNotification' = displayed[tag]
    /\ displayed' = DeleteField(displayed, tag)
    /\ clickPc' = "matchAll"
    /\ clickOutcome' = "pending"
    /\ matchAllCalls' = matchAllCalls + 1
    /\ UNCHANGED << caches, lifeVars, fetchVars, userAgent, pushPc,
                    pushPayload, notificationData, showCalls, pushRelays,
                    pushEvents, pushOutcome, windows, clickTarget,
                    focusCalls, openCalls, openWindowSupported, clickRelays,
                    timers, lostTimers, now, msgVars >>

\* The notificationclick event: the notification is closed; 'dismiss'
\* returns, any other action registers waitUntil(clients.matchAll(...)...).
ClickDispatch(tag, action) ==
    /\ swState = "activated"
    /\ clickPc = "idle"
    /\ tag \in DOMAIN displayed
    /\ clickAction' = action
    /\ clickNotification' = displayed[tag]
    /\ displayed' = DeleteField(displayed, tag)
    /\ IF action = "dismiss"
       THEN /\ clickPc' = "done"
            /\ clickOutcome' = "dismissed"
            /\ UNCHANGED matchAllCalls
       ELSE /\ clickPc' = "matchAll"
            /\ clickOutcome' = "pending"
            /\ matchAllCalls' = matchAllCalls + 1
    /\ UNCHANGED << caches, lifeVars, fetchVars, userAgent, pushPc,
                    pushPayload, notificationData, showCalls, pushRelays,
                    pushEvents, pushOutcome, windows, clickTarget,
                    focusCalls, openCalls, openWindowSupported, clickRelays,
                    timers, lostTimers, now, msgVars >>

\* Mutant of ClickMatchAllOk: the loop does not return after focusing, so
\* the handler goes on to openWindow.
ClickMatchAllOkNoReturn ==
    /\ clickPc = "matchAll"
    /\ LET target == FirstFocusable(windows)
       IN  IF target # 0
           THEN /\ clickTarget' = target
                /\ focusCalls' = Append(focusCalls, target)
                /\ clickPc' = "focus"
                /\ openCalls' = IF openWindowSupported
                                THEN Append(openCalls, RootUrl)
                                ELSE openCalls
           ELSE IF openWindowSupported
           THEN /\ openCalls' = Append(openCalls, RootUrl)
                /\ clickPc' = "open"
                /\ UNCHANGED << clickTarget, focusCalls >>
           ELSE /\ clickPc' = "done"
                /\ UNCHANGED << clickTarget, focusCalls, openCalls >>
    /\ clickOutcome' = IF FirstFocusable(windows) = 0 /\ ~openWindowSupported
                       THEN "nothingToDo" ELSE clickOutcome
    /\ UNCHANGED << caches, lifeVars, fetchVars, pushVars, windows,
                    clickAction, clickNotification, matchAllCalls,
                    openWindowSupported, clickRelays, timers, lostTimers,
                    now, msgVars >>

\* clients.matchAll resolves: the first focusable window of the origin is
\* focused; without one, openWindow('./') is called when it exists.
ClickMatchAllOk ==
    /\ clickPc = "matchAll"
    /\ LET target == FirstFocusable(windows)
       IN  IF target # 0
           THEN /\ clickTarget' = target
                /\ focusCalls' = Append(focusCalls, target)
                /\ clickPc' = "focus"
                /\ UNCHANGED openCalls
           ELSE IF openWindowSupported
           THEN /\ openCalls' = Append(openCalls, RootUrl)
                /\ clickPc' = "open"
                /\ UNCHANGED << clickTarget, focusCalls >>
           ELSE /\ clickPc' = "done"
                /\ UNCHANGED << clickTarget, focusCalls, openCalls >>
    /\ clickOutcome' = IF FirstFocusable(windows) = 0 /\ ~openWindowSupported
                       THEN "nothingToDo" ELSE clickOutcome
    /\ UNCHANGED << caches, lifeVars, fetchVars, pushVars, windows,
                    clickAction, clickNotification, matchAllCalls,
                    openWindowSupported, clickRelays, timers, lostTimers,
                    now, msgVars >>

\* clients.matchAll rejects: the catch logs it.
ClickMatchAllFail ==
    /\ clickPc = "matchAll"
    /\ clickPc' = "done"
    /\ clickOutcome' = "matchAllFailed"
    /\ UNCHANGED << caches, lifeVars, fetchVars, pushVars, windows,
                    clickAction, clickNotification, clickTarget,
                    matchAllCalls, focusCalls, openCalls,
                    openWindowSupported, clickRelays, timers, lostTimers,
                    now, msgVars >>

\* client.focus() resolves: the relay is posted to the focused window.
FocusOk ==
    /\ clickPc = "focus"
    /\ clickRelays' = Append(clickRelays,
                             ClickedMessage(clickTarget, clickAction,
                                            clickNotification.data, now))
    /\ clickPc' = "done"
    /\ clickOutcome' = "focused"
    /\ UNCHANGED << caches, lifeVars, fetchVars, pushVars, windows,
                    clickAction, clickNotification, clickTarget,
                    matchAllCalls, focusCalls, openCalls,
                    openWindowSupported, timers, lostTimers, now, msgVars >>

\* Mutant of FocusFail: no catch, the promise given to waitUntil rejects.
FocusFailUncaught ==
    /\ clickPc = "focus"
    /\ clickPc' = "rejected"
    /\ clickOutcome' = "focusFailed"
    /\ UNCHANGED << caches, lifeVars, fetchVars, pushVars, windows,
                    clickAction, clickNotification, clickTarget,
                    matchAllCalls, focusCalls, openCalls,
                    openWindowSupported, clickRelays, timers, lostTimers,
                    now, msgVars >>

\* client.focus() rejects: the catch logs it.
FocusFail ==
    /\ clickPc = "focus"
    /\ clickPc' = "done"
    /\ clickOutcome' = "focusFailed"
    /\ UNCHANGED << caches, lifeVars, fetchVars, pushVars, windows,
                    clickAction, clickNotification, clickTarget,
                    matchAllCalls, focusCalls, openCalls,
                    openWindowSupported, clickRelays, timers, lostTimers,
                    now, msgVars >>

\* The timer the openWindow callback sets: setTimeout(..., 1000).
RelayTimer(client, setAt) ==
    [client |-> client, setAt |-> setAt, due |-> setAt + RelayDelay]

\* clients.openWindow resolves with a window client: the new window exists,
\* the relay timer is set and the promise given to waitUntil resolves.
OpenOk ==
    /\ clickPc = "open"
    /\ LET handle == Len(windows) + 1
       IN  /\ windows' = Append(windows, Window(handle, RootUrl, TRUE))
           /\ clickTarget' = handle
           /\ timers' = timers \cup {RelayTimer(handle, now)}
    /\ clickPc' = "done"
    /\ clickOutcome' = "opened"
    /\ UNCHANGED << caches, lifeVars, fetchVars, pushVars, clickAction,
                    clickNotification, matchAllCalls, focusCalls, openCalls,
                    openWindowSupported, clickRelays, lostTimers, now,
                    msgVars >>

\* clients.openWindow resolves with null: the timer is set all the same and
\* its callback will find no client.
OpenNull ==
    /\ clickPc = "open"
    /\ timers' = timers \cup {RelayTimer(0, now)}
    /\ clickPc' = "done"
    /\ clickOutcome' = "openedNull"
    /\ UNCHANGED << caches, lifeVars, fetchVars, pushVars, windows,
                    clickAction, clickNotification, clickTarget,
                    matchAllCalls, focusCalls, openCalls,
                    openWindowSupported, clickRelays, lostTimers, now,
                    msgVars >>

\* clients.openWindow rejects: the catch logs it.
OpenFail ==
    /\ clickPc = "open"
    /\ clickPc' = "done"
    /\ clickOutcome' = "openFailed"
    /\ UNCHANGED << caches, lifeVars, fetchVars, pushVars, windows,
                    clickAction, clickNotification, clickTarget,
                    matchAllCalls, focusCalls, openCalls,
                    openWindowSupported, clickRelays, timers, lostTimers,
                    now, msgVars >>

\* The timer callback runs, not before its delay has passed: if (client)
\* the relay is posted to the new window.
TimerFire(t) ==
    /\ t \in timers
    /\ now >= t.due
    /\ timers' = timers \ {t}
    /\ clickRelays' =
         IF t.client # 0
         THEN Append(clickRelays,
                     ClickedMessage(t.client, clickAction,
                                    clickNotification.data, now))
         ELSE clickRelays
    /\ UNCHANGED << caches, lifeVars, fetchVars, pushVars, windows, clickPc,
                    clickOutcome, clickAction, clickNotification,
                    clickTarget, matchAllCalls, focusCalls, openCalls,
                    openWindowSupported, lostTimers, now, msgVars >>

\* Time passes.
Tick ==
    /\ now + TickStep <= MaxTime
    /\ now' = now + TickStep
    /\ UNCHANGED << caches, lifeVars, fetchVars, pushVars, windows, clickPc,
                    clickOutcome, clickAction, clickNotification,
                    clickTarget, matchAllCalls, focusCalls, openCalls,
                    openWindowSupported, clickRelays, timers, lostTimers,
                    msgVars >>

(***************************************************************************)
(* The host.                                                               *)
(***************************************************************************)
\* No event is keeping the worker alive: every promise given to waitUntil
\* or respondWith has settled.
NoExtendedLifetime ==
    /\ swState \notin {"installing", "activating"}
    /\ \A e \in Slots : slots[e].pc \in {"idle", "responded", "passthrough", "passed"}
    /\ pushPc \in {"idle", "done"}
    /\ clickPc \in {"idle", "done"}

\* The host terminates the idle worker: work that no waitUntil covers (a
\* cache write in flight, a timer) is dropped.
Terminate ==
    /\ NoExtendedLifetime
    /\ pendingPuts # {} \/ timers # {}
    /\ lostPuts' = lostPuts \cup { p.req : p \in pendingPuts }
    /\ pendingPuts' = {}
    /\ lostTimers' = lostTimers \cup timers
    /\ timers' = {}
    /\ UNCHANGED << caches, lifeVars, slots, netSeq, fetchEvents,
                    delivered200, written, putLog, pushVars, windows,
                    clickPc, clickOutcome, clickAction, clickNotification,
                    clickTarget, matchAllCalls, focusCalls, openCalls,
                    openWindowSupported, clickRelays, now, msgVars >>

(***************************************************************************)
(* Control Channel (the message handler).                                  *)
(***************************************************************************)
\* event.data of a message event: absent, or an object with a type.
NoData == "(no data)"
MessageTypes == {NoData, "SKIP_WAITING", "GET_VERSION", "SYNC_REMINDERS", "PING"}

\* Number of ports a message event carries in event.ports.
PortCounts == {0, 1, 2}

\* { version: CACHE_NAME, type: 'simple-reminders' }
VersionReply == [version |-> CACHE_NAME, type |-> "simple-reminders"]

\* Mutant of MessageReplies: the version is posted whatever the type is.
MessageRepliesToAll(event, type, ports) ==
    IF ports >= 1
    THEN << [event |-> event, port |-> 1, message |-> VersionReply] >>
    ELSE << >>

\* What the handler posts for message event number event: for GET_VERSION
\* one message on event.ports[0], when there is such a port.
MessageReplies(event, type, ports) ==
    IF type = "GET_VERSION" /\ ports >= 1
    THEN << [event |-> event, port |-> 1, message |-> VersionReply] >>
    ELSE << >>

\* The message event.  The handler is synchronous: the three tests run one
\* after the other; event.ports[0].postMessage throws when the message has
\* no port.
MessageDispatch(type, ports) ==
    /\ Len(msgLog) < MaxMessages
    /\ msgLog' = Append(msgLog, [type |-> type, ports |-> ports])
    /\ skipWaitingCalls' =
         IF type = "SKIP_WAITING" THEN skipWaitingCalls + 1
         ELSE skipWaitingCalls
    /\ msgReplies' = msgReplies \o MessageReplies(Len(msgLog) + 1, type, ports)
    /\ msgThrew' = IF type = "GET_VERSION" /\ ports = 0
                   THEN msgThrew \cup {Len(msgLog) + 1}
                   ELSE msgThrew
    /\ UNCHANGED << caches, swState, installPc, activatePc, activateKeys,
                    pendingDeletes, failedDeletes, claimed, claimedWithStale,
                    fetchVars, pushVars, clickVars >>

(***************************************************************************)
(* Initial states.                                                         *)
(***************************************************************************)
InitialWindows ==
    LET Kinds == { [url |-> Origin \o "/", focusable |-> TRUE],
                   [url |-> "about:blank", focusable |-> TRUE],
                   [url |-> Origin \o "/index.html", focusable |-> FALSE] }
    IN  UNION { { [i \in 1..n |-> Window(i, ks[i].url, ks[i].focusable)] :
                    ks \in [1..n -> Kinds] } : n \in 0..2 }

\* The worker script has been evaluated and no event has been handled.
FreshWorker ==
    /\ swState = "parsed"
    /\ installPc = "idle"
    /\ activatePc = "idle"
    /\ activateKeys = {}
    /\ pendingDeletes = {}
    /\ failedDeletes = {}
    /\ claimed = FALSE
    /\ claimedWithStale = FALSE
    /\ skipWaitingCalls = 0

NoFetch ==
    /\ slots = [e \in Slots |-> IdleSlot]
    /\ pendingPuts = {}
    /\ netSeq = 0
    /\ fetchEvents = 0
    /\ delivered200 = {}
    /\ written = {}
    /\ lostPuts = {}
    /\ putLog = << >>

NoPush ==
    /\ pushPc = "idle"
    /\ pushPayload = NoPayload
    /\ notificationData = EmptyObject
    /\ showCalls = 0
    /\ pushRelays = EmptyObject
    /\ pushEvents = 0
    /\ pushOutcome = "none"

NoClick ==
    /\ clickPc = "idle"
    /\ clickOutcome = "none"
    /\ clickAction = ""
    /\ clickNotification = EmptyObject
    /\ clickTarget = 0
    /\ matchAllCalls = 0
    /\ focusCalls = << >>
    /\ openCalls = << >>
    /\ clickRelays = << >>
    /\ timers = {}
    /\ lostTimers = {}
    /\ now = 0

NoMessage ==
    /\ msgLog = << >>
    /\ msgReplies = << >>
    /\ msgThrew = {}

Init ==
    /\ caches \in InitialCaches
    /\ FreshWorker
    /\ NoFetch
    /\ userAgent \in UserAgents
    /\ windows \in InitialWindows
    /\ openWindowSupported \in BOOLEAN
    /\ displayed = EmptyObject
    /\ NoPush
    /\ NoClick
    /\ NoMessage

(***************************************************************************)
(* Specifications.                                                         *)
(***************************************************************************)
NextCache ==
    \/ InstallStart
    \/ InstallOpen
    \/ InstallAddAllOk
    \/ InstallAddAllFail
    \/ ActivateStart
    \/ ActivateKeys
    \/ \E n \in StaleNames : DeleteOk(n)
    \/ \E n \in StaleNames : DeleteFail(n)
    \/ Claim
    \/ Activated
    \/ \E e \in Slots, r \in Requests : FetchDispatch(e, r)
    \/ \E e \in Slots, st \in {200, 0} : PassthroughNet(e, st)
    \/ \E e \in Slots : Match(e)
    \/ \E e \in Slots, st \in Statuses : NetOk(e, st)
    \/ \E e \in Slots : NetFail(e)
    \/ \E p \in pendingPuts : PutOpen(p)
    \/ \E p \in pendingPuts : PutDone(p)
    \/ \E p \in pendingPuts : PutFail(p)

NextPush ==
    \/ \E data \in Payloads : PushDispatch(data)
    \/ PushShowOk
    \/ PushShowFail
    \/ PushMatchAllOk
    \/ PushMatchAllFail

ClickActions == {"", "open", "dismiss"}

NextClick ==
    \/ \E tag \in DOMAIN displayed, action \in ClickActions :
          ClickDispatch(tag, action)
    \/ ClickMatchAllOk
    \/ ClickMatchAllFail
    \/ FocusOk
    \/ FocusFail
    \/ OpenOk
    \/ OpenNull
    \/ OpenFail
    \/ \E t \in timers : TimerFire(t)
    \/ Tick

NextMessage ==
    \E type \in MessageTypes, ports \in PortCounts : MessageDispatch(type, ports)

Next == NextCache \/ NextPush \/ NextClick \/ NextMessage \/ Terminate

\* The whole worker.
Spec == Init /\ [][Next]_vars

\* The worker after a successful install and activation, no event in
\* progress: a state Spec reaches.
ActiveWorker ==
    /\ caches = CacheAddAll(CachesOpen(<< >>, CACHE_NAME), CACHE_NAME,
                            urlsToCache)
    /\ swState = "activated"
    /\ installPc = "done"
    /\ activatePc = "done"
    /\ activateKeys = {CACHE_NAME}
    /\ pendingDeletes = {}
    /\ failedDeletes = {}
    /\ claimed = TRUE
    /\ claimedWithStale = FALSE
    /\ skipWaitingCalls = 1

\* The cache lifecycle and the fetch handler, with no notification traffic.
InitCache ==
    /\ Init
    /\ userAgent = ""
    /\ windows = << >>
    /\ openWindowSupported = TRUE

SpecCache == InitCache /\ [][NextCache \/ Terminate]_vars

\* The push handler of an active worker.
InitPush ==
    /\ ActiveWorker
    /\ NoFetch
    /\ userAgent \in UserAgents
    /\ windows \in InitialWindows
    /\ openWindowSupported = TRUE
    /\ displayed = EmptyObject
    /\ NoPush
    /\ NoClick
    /\ NoMessage

SpecPush == InitPush /\ [][NextPush]_vars

\* The notifications earlier push events left on display.
InitialDisplayed(ua) ==
    LET plain == BuildNotification(NoPayload, ua, 0)
        full == BuildNotification(PayloadFull, ua, 0)
    IN  { (plain.tag :> plain), (full.tag :> full),
          (plain.tag :> plain) @@ (full.tag :> full) }

\* The notificationclick handler of an active worker.
InitClick ==
    /\ ActiveWorker
    /\ NoFetch
    /\ userAgent \in {"", "iPod touch"}
    /\ windows \in InitialWindows
    /\ openWindowSupported \in BOOLEAN
    /\ displayed \in InitialDisplayed(userAgent)
    /\ NoPush
    /\ NoClick
    /\ NoMessage

SpecClick == InitClick /\ [][NextClick \/ Terminate]_vars

\* The install and activate handlers of a worker that finds at most one
\* generation.
NextLifecycle ==
    \/ InstallStart
    \/ InstallOpen
    \/ InstallAddAllOk
    \/ InstallAddAllFail
    \/ ActivateStart
    \/ ActivateKeys
    \/ \E n \in StaleNames : DeleteOk(n)
    \/ \E n \in StaleNames : DeleteFail(n)
    \/ Claim
    \/ Activated

\* The message handler, in every lifecycle state of the worker.
InitMessage ==
    /\ InitCache
    /\ Len(caches) <= 1

SpecMessage == InitMessage /\ [][NextLifecycle \/ NextMessage]_vars

(***************************************************************************)
(* Properties of the request router and the cache lifecycle (SpecCache).   *)
(***************************************************************************)
\* The entries an event's request has in any generation.
StoredFor(req) ==
    { i \in DOMAIN caches : req \in DOMAIN caches[i].entries }

\* C1: a fetch event whose hostname contains '192.168.' or whose port is
\* '3001' is not answered by the handler (no respondWith), never reads the
\* cache (no caches.match) and never writes it (no cache.put started, and
\* whatever is stored under its key is what was there before the worker
\* ran), whatever the cache holds.
C1_BypassUntouched ==
    \A e \in Slots :
        LET s == slots[e]
        IN  (s.pc # "idle" /\ (Includes(s.req.hostname, "192.168.")
                               \/ s.req.port = "3001"))
            => /\ s.pc \in {"passthrough", "passed"}
               /\ ~s.respondWith
               /\ ~s.matched
               /\ ~s.fromCache
               /\ ~s.putStarted
               /\ \A p \in pendingPuts : p.req # s.req
               /\ s.req \notin written
               /\ \A i \in StoredFor(s.req) :
                      caches[i].entries[s.req] = StaleResponse

\* C1 witness: a bypass request went to the network although its key is
\* stored in the cache.
C1_Witness ==
    \E e \in Slots :
        /\ slots[e].pc = "passed"
        /\ slots[e].req = ReqPiPort
        /\ slots[e].response.body = "network"
        /\ CachesMatch(caches, slots[e].req) # NoResponse

C3_ActivateLeavesOneGeneration ==
    activatePc = "done"
        => /\ Len(caches) = 1
           /\ CacheNames(caches) = {CACHE_NAME}

\* C3 witness: activation completed after two stale generations existed.
C3_Witness ==
    /\ activatePc = "done"
    /\ StaleNames \subseteq activateKeys
    /\ claimed

\* C4: a cacheable request that missed the cache and whose network request
\* failed is answered with the 408 JSON error response; the promise given
\* to respondWith does not reject and the event starts no cache write.
C4_NetworkFailureAnswered ==
    \A e \in Slots :
        LET s == slots[e]
        IN  s.netFailed
            => /\ s.pc = "responded"
               /\ s.response.status = 408
               /\ s.response.contentType = "application/json"
               /\ s.response.body =
                    "{\"error\":\"Network error\",\"message\":\"Please check your connection and try again\"}"
               /\ ~s.putStarted
               /\ \A p \in pendingPuts : p.response # s.response
               /\ \A i \in StoredFor(s.req) :
                      caches[i].entries[s.req].status = 200

\* C4 witness: a network failure was answered with the error response.
C4_Witness ==
    \E e \in Slots :
        /\ slots[e].netFailed
        /\ slots[e].usedNet
        /\ slots[e].response = ErrorResponse

(***************************************************************************)
(* Properties of the push handler (SpecPush).                              *)
(***************************************************************************)
\* The user agent names a constrained platform.
Constrained == Includes(userAgent, "iPad") \/ Includes(userAgent, "iPhone")
                   \/ Includes(userAgent, "iPod")

\* A push event has been handled up to its showNotification call.
Shown == pushPc # "idle"

\* The fields of a structured payload.
Supplied == IF pushPayload.present /\ pushPayload.parses
            THEN DOMAIN pushPayload.json ELSE {}

C6_TagConstant ==
    /\ Shown => notificationData.tag = "reminder-notification"
    /\ Cardinality(DOMAIN displayed) <= 1

PlatformShape(nd) ==
    IF Constrained
    THEN /\ "actions" \notin DOMAIN nd
         /\ Len(nd.vibrate) = 3
    ELSE /\ "actions" \in DOMAIN nd
         /\ Len(nd.actions) = 2
         /\ nd.actions[1].action = "open"
         /\ nd.actions[2].action = "dismiss"

\* C8: on a constrained platform the descriptor shown has no actions and a
\* vibration pattern of 3 elements; on a full platform its actions are
\* exactly 'open' and 'dismiss', in that order; for every payload.
C8_PlatformPass ==
    /\ Shown => PlatformShape(notificationData)
    /\ \A tag \in DOMAIN displayed : PlatformShape(displayed[tag])

\* C8 witness: a payload that brings its own actions was shown on a full
\* platform.
C8_Witness ==
    /\ pushPc = "matchAll"
    /\ pushPayload = PayloadFull
    /\ ~Constrained
    /\ "actions" \in DOMAIN pushPayload.json
    /\ displayed["plants"].actions = DesktopActions

(***************************************************************************)
(* Properties of the notificationclick handler (SpecClick).                *)
(***************************************************************************)
\* A notificationclick event has been dispatched.
Clicked == clickPc # "idle"

\* C9: a click with action 'dismiss' closes the notification and does
\* nothing else, then or later: no clients.matchAll, no focus, no
\* openWindow, no timer and no REMINDER_NOTIFICATION_CLICKED relay.
C9_DismissOnlyCloses ==
    (Clicked /\ clickAction = "dismiss") =>
        /\ clickPc = "done"
        /\ clickNotification.tag \notin DOMAIN displayed
        /\ matchAllCalls = 0
        /\ focusCalls = << >>
        /\ openCalls = << >>
        /\ clickRelays = << >>
        /\ timers = {}
        /\ lostTimers = {}
        /\ clickTarget = 0

\* C9 witness: a dismissed notification, a window that could have been
\* focused, and all the time of the model gone by.
C9_Witness ==
    /\ clickPc = "done"
    /\ clickAction = "dismiss"
    /\ FirstFocusable(windows) # 0
    /\ now > RelayDelay

\* The handle clients.openWindow resolved with, 0 when there is none.
OpenedHandle == IF focusCalls = << >> /\ openCalls # << >> THEN clickTarget ELSE 0

\* No window that was open when the click arrived has a URL of the
\* application's origin.
NoWindowOfOrigin ==
    \A i \in DOMAIN windows :
        windows[i].id # OpenedHandle => ~Includes(windows[i].url, Origin)

\* C10: a click with an action other than 'dismiss', no window of the
\* application's origin being open and openWindow giving a handle: when the
\* handler's work is over (no timer is waiting), exactly one window has
\* been opened at the root path and exactly one
\* REMINDER_NOTIFICATION_CLICKED relay has been sent to it, not earlier
\* than RelayDelay after the handle was obtained.
C10_OpenThenOneRelay ==
    (/\ Clicked
     /\ clickAction # "dismiss"
     /\ NoWindowOfOrigin
     /\ OpenedHandle # 0
     /\ timers = {})
        => /\ openCalls = << RootUrl >>
           /\ Len(clickRelays) = 1
           /\ clickRelays[1].type = "REMINDER_NOTIFICATION_CLICKED"
           /\ clickRelays[1].client = OpenedHandle
           /\ clickRelays[1].timestamp >= RelayDelay

(***************************************************************************)
(* Properties of the message handler (SpecMessage).                        *)
(***************************************************************************)
\* The replies posted for message event number k.
RepliesTo(k) == SelectSeq(msgReplies, LAMBDA r : r.event = k)

PushSettled == pushPc = "done" /\ pushOutcome # "none"

\* C12: when showNotification and the client enumeration succeeded, every
\* open window got exactly one REMINDER_NOTIFICATION_SHOWN relay carrying
\* the descriptor on display; a relay is sent only after the display
\* succeeded; when showNotification or clients.matchAll failed no relay is
\* sent; the awaited work settles without rejecting either way.
C12_ShownRelay ==
    /\ pushOutcome \in {"none", "pending", "shown", "relayed", "showFailed",
                        "matchAllFailed"}
    /\ pushOutcome = "relayed" =>
          /\ pushPc = "done"
          /\ DOMAIN pushRelays = DOMAIN windows
          /\ \A i \in DOMAIN windows :
                /\ pushRelays[i].type = "REMINDER_NOTIFICATION_SHOWN"
                /\ pushRelays[i].notification = notificationData
                /\ pushRelays[i].notification =
                      displayed[notificationData.tag]
    /\ DOMAIN pushRelays # {} =>
          /\ pushOutcome = "relayed"
          /\ notificationData.tag \in DOMAIN displayed
    /\ pushOutcome \in {"showFailed", "matchAllFailed"} =>
          /\ pushPc = "done"
          /\ DOMAIN pushRelays = {}

\* C12 witness: two windows were sent the relay of a displayed
\* notification.
C12_Witness ==
    /\ pushOutcome = "relayed"
    /\ Len(windows) = 2
    /\ DOMAIN pushRelays = {1, 2}
    /\ pushRelays[2].notification.body = "8am dose"

(***************************************************************************)
(* Lifetime of the handlers' asynchronous work.                            *)
(***************************************************************************)
\* C13: all asynchronous work a handler starts is covered by the event's
\* extended lifetime: whenever no waitUntil / respondWith is outstanding,
\* no cache write and no relay timer is still in flight, and the host
\* terminating the worker has never dropped a cache write or a relay timer.
C13_WorkCoveredByLifetime ==
    /\ NoExtendedLifetime => (pendingPuts = {} /\ timers = {})
    /\ lostPuts = {}
    /\ putLog = << >>
    /\ lostTimers = {}

(***************************************************************************)
(* Properties of the cache generations (SpecCache).                        *)
(***************************************************************************)
\* What a lookup in the generation named CACHE_NAME alone gives.
CurrentMatch(cs, req) ==
    IF CACHE_NAME \in CacheNames(cs)
    THEN CacheMatch(cs[CacheIndex(cs, CACHE_NAME)].entries, req)
    ELSE NoResponse

\* C14: the lookup of a cacheable request consults the generation named
\* CACHE_NAME only: the step that settles caches.match gives what that
\* generation holds for the request, and the request goes to the network
\* when that generation has no entry for it, whatever a stale generation
\* holds.
C14_LookupCurrentOnly ==
    [][\A e \in Slots :
          (slots[e].pc = "match" /\ slots'[e].pc # "match")
              => /\ slots'[e].response = CurrentMatch(caches, slots[e].req)
                 /\ CurrentMatch(caches, slots[e].req) = NoResponse
                        => slots'[e].pc = "net"]_vars

\* C15: in the activate handler every generation whose name is not
\* CACHE_NAME has its deletion attempted, and a deletion is given up only by
\* its own rejection: such a generation is being deleted, or is gone, or
\* its own caches.delete rejected, whichever of the other deletions failed.
C15_DeletesIndependent ==
    activatePc \in {"deleting", "claim", "done", "rejected"}
        => /\ failedDeletes \cap pendingDeletes = {}
           /\ \A n \in activateKeys \ {CACHE_NAME} :
                 \/ n \in pendingDeletes
                 \/ n \in failedDeletes
                 \/ n \notin CacheNames(caches)

\* C15 witness: the deletion of one stale generation rejected and the other
\* stale generation was deleted all the same.
C15_Witness ==
    /\ activatePc = "rejected"
    /\ failedDeletes = {"simple-reminders-v0"}
    /\ activateKeys = StaleNames \cup {CACHE_NAME}
    /\ pendingDeletes = {}
    /\ CacheNames(caches) = {"simple-reminders-v0", CACHE_NAME}

\* C16: clients.claim() is called only once every caches.delete of the
\* activate handler has resolved: no deletion is in flight and no stale
\* generation exists when the clients are claimed, and when a deletion
\* rejected the clients are not claimed at all.
C16_ClaimAfterDeletes ==
    /\ claimed => /\ ~claimedWithStale
                  /\ pendingDeletes = {}
                  /\ failedDeletes = {}
                  /\ activatePc = "done"
    /\ (activatePc = "rejected" \/ failedDeletes # {}) => ~claimed

\* C16 witness: the clients were claimed after both stale generations had
\* been listed and deleted.
C16_Witness ==
    /\ claimed
    /\ ~claimedWithStale
    /\ activateKeys = StaleNames \cup {CACHE_NAME}
    /\ CacheNames(caches) = {CACHE_NAME}
    /\ swState = "activating"

\* The entries of the generation named CACHE_NAME.
CurrentEntries ==
    IF CACHE_NAME \in CacheNames(caches)
    THEN caches[CacheIndex(caches, CACHE_NAME)].entries
    ELSE EmptyEntries

\* C17: every entry of the generation named CACHE_NAME that was not there
\* before the worker ran is a manifest asset stored at install or a
\* status-200 network response stored under the request it answered; a
\* network response with another status reaches the client as it is and
\* starts no cache write, and the 408 error response is never stored.
C17_OnlyManifestAnd200 ==
    /\ \A req \in DOMAIN CurrentEntries :
          LET r == CurrentEntries[req]
          IN  /\ r.status = 200
              /\ r # ErrorResponse
              /\ \/ r = StaleResponse
                 \/ r = ManifestResponse /\ req \in urlsToCache
                 \/ /\ r.body = "network"
                    /\ \E e \in Slots : /\ slots[e].req = req
                                        /\ slots[e].usedNet
                                        /\ slots[e].response = r
    /\ \A p \in pendingPuts : p.response.status = 200 /\ p.response.body = "network"
    /\ \A e \in Slots :
          (slots[e].usedNet /\ slots[e].pc = "responded"
             /\ slots[e].response.status # 200)
              => /\ ~slots[e].putStarted
                 /\ slots[e].response \in
                       {ErrorResponse} \cup
                       { NetResponse(st, n) : st \in Statuses \ {200},
                                              n \in 1..netSeq }
                 /\ \A i \in DOMAIN caches :
                       \A req \in DOMAIN caches[i].entries :
                           caches[i].entries[req] # slots[e].response

\* C17 witness: one event's 404 reached the client and was not stored while
\* another event's 200 for the same request was.
C17_Witness ==
    \E e1, e2 \in Slots :
        /\ slots[e1].req = slots[e2].req
        /\ slots[e1].pc = "responded"
        /\ slots[e1].usedNet
        /\ slots[e1].response.status = 404
        /\ slots[e2].usedNet
        /\ slots[e2].response.status = 200
        /\ slots[e2].req \in DOMAIN CurrentEntries
        /\ CurrentEntries[slots[e2].req] = slots[e2].response

\* The completed cache writes for a request, in the order of completion.
WritesFor(req) == SelectSeq(putLog, LAMBDA w : w.req = req)

\* Both events asked for the same request and both missed the cache.
BothMissed(e1, e2) ==
    /\ e1 # e2
    /\ slots[e1].req = slots[e2].req
    /\ slots[e1].matched /\ ~slots[e1].fromCache
    /\ slots[e2].matched /\ ~slots[e2].fromCache

\* C18: two fetch events for the same cacheable request that both missed
\* the cache both go to the network; each is answered with the response of
\* its own network request, and each status-200 answer starts a cache
\* write; once the writes of both have completed, the generation named
\* CACHE_NAME holds for the request the response whose write completed
\* last, be it one of theirs or that of a further event for the request.
C18_LastWriteWins ==
    \A e1, e2 \in Slots :
        BothMissed(e1, e2) =>
            /\ slots[e1].usedNet /\ slots[e2].usedNet
            /\ \A e \in {e1, e2} :
                  (slots[e].pc = "responded" /\ ~slots[e].netFailed)
                      => /\ slots[e].response.body = "network"
                         /\ slots[e].response.id \in 1..netSeq
                         /\ slots[e].response.status = 200
                                => slots[e].putStarted
            /\ (slots[e1].pc = "responded" /\ ~slots[e1].netFailed
                /\ slots[e2].pc = "responded" /\ ~slots[e2].netFailed)
                  => slots[e1].response.id # slots[e2].response.id
            /\ LET ws == WritesFor(slots[e1].req)
               IN  (\A e \in {e1, e2} :
                       \E k \in DOMAIN ws : ws[k].response = slots[e].response)
                     => /\ slots[e1].req \in DOMAIN CurrentEntries
                        /\ CurrentEntries[slots[e1].req] = ws[Len(ws)].response

\* C18 witness: two events missed for the same request, the second
\* network response was written first and the first one last, which is the
\* one the cache holds.
C18_Witness ==
    \E e1, e2 \in Slots :
        /\ BothMissed(e1, e2)
        /\ slots[e1].response.id = 1
        /\ slots[e2].response.id = 2
        /\ Len(putLog) = 2
        /\ putLog[1].response = slots[e2].response
        /\ putLog[2].response = slots[e1].response
        /\ CurrentEntries[slots[e1].req] = slots[e1].response

(***************************************************************************)
(* Properties of the focus branch and of failures (SpecClick).             *)
(***************************************************************************)
\* A window that was open when the click arrived has a URL of the
\* application's origin and can be focused.
HadFocusable ==
    \E i \in DOMAIN windows :
        windows[i].id # OpenedHandle /\ Focusable(windows[i])

\* C19: a click with an action other than 'dismiss' while a window of the
\* application's origin that supports focus is open: no window is opened
\* and no timer set; at most one window is focused, and it is such a
\* window; a REMINDER_NOTIFICATION_CLICKED relay exists only after
\* focus() resolved, and when clients.matchAll and focus() have resolved
\* exactly one window has been focused and exactly one relay, carrying the
\* action and the notification's data, has been sent, to that window.
C19_FocusThenOneRelay ==
    (Clicked /\ clickAction # "dismiss" /\ HadFocusable) =>
        /\ openCalls = << >>
        /\ timers = {} /\ lostTimers = {}
        /\ Len(focusCalls) <= 1
        /\ Len(clickRelays) <= 1
        /\ focusCalls # << >> =>
              \E i \in DOMAIN windows : /\ windows[i].id = focusCalls[1]
                                        /\ Focusable(windows[i])
        /\ clickRelays # << >> => clickOutcome = "focused"
        /\ clickPc = "done" =>
              clickOutcome \in {"focused", "focusFailed", "matchAllFailed"}
        /\ clickOutcome = "focused" =>
              /\ clickPc = "done"
              /\ Len(focusCalls) = 1
              /\ Len(clickRelays) = 1
              /\ clickRelays[1].type = "REMINDER_NOTIFICATION_CLICKED"
              /\ clickRelays[1].client = focusCalls[1]
              /\ clickRelays[1].action = ActionOrDefault(clickAction)
              /\ clickRelays[1].data = clickNotification.data

\* C19 witness: with a window that cannot be focused listed first, the
\* second window was focused and sent the relay of an 'open' click.
C19_Witness ==
    /\ clickOutcome = "focused"
    /\ clickAction = "open"
    /\ Len(windows) = 2
    /\ ~Focusable(windows[1])
    /\ focusCalls = << 2 >>
    /\ Len(clickRelays) = 1
    /\ clickRelays[1].client = 2

\* The handler has had an effect other than closing the notification.
ClickSideEffect ==
    \/ matchAllCalls > 0
    \/ focusCalls # << >>
    \/ openCalls # << >>
    \/ clickRelays # << >>
    \/ timers # {} \/ lostTimers # {}

\* C20: whatever the action of a click, the notification is closed by the
\* time the handler has any other effect and is never on display again; a
\* rejection of clients.matchAll, focus() or openWindow ends the handler's
\* awaited work without rejecting it and without a relay for the failed
\* step.
C20_ClosedFirstFailuresSwallowed ==
    /\ ClickSideEffect => Clicked
    /\ Clicked =>
          /\ clickNotification # EmptyObject
          /\ clickNotification.tag \notin DOMAIN displayed
          /\ clickPc \in {"matchAll", "focus", "open", "done"}
    /\ clickOutcome \in {"matchAllFailed", "focusFailed", "openFailed"} =>
          /\ clickPc = "done"
          /\ clickRelays = << >>
          /\ timers = {} /\ lostTimers = {}
    /\ clickOutcome = "matchAllFailed" =>
          focusCalls = << >> /\ openCalls = << >>

\* C20 witness: focus() rejected after the notification of an 'open' click
\* was closed; the awaited work is over and nothing was relayed.
C20_Witness ==
    /\ clickOutcome = "focusFailed"
    /\ clickAction = "open"
    /\ clickPc = "done"
    /\ Len(focusCalls) = 1
    /\ clickRelays = << >>
    /\ clickNotification.tag \notin DOMAIN displayed

====
